---- MODULE Spec2Model ----
(***************************************************************************)
(* Model of pkg/flagbuilder/build_flags.go: BuildFlags and its walker      *)
(* callback.  Go strings are modelled as sequences of byte values, so that *)
(* sort.Strings, strings.Join and fmt.Sprintf are computed byte by byte.   *)
(***************************************************************************)
EXTENDS Integers, Sequences, FiniteSets

\* ------------------------------------------------------------------ bounds

\* walker invocations on struct fields in one BuildFlags call
MaxVisits == 3
\* largest magnitude of the integer values tried
MaxInt == 12
\* longest []string tried
MaxElems == 2

\* ----------------------------------------------------------------- strings

\* byte value of the characters used by the model
Ord(c) ==
  CASE c = " " -> 32 [] c = "," -> 44 [] c = "-" -> 45 [] c = "." -> 46
    [] c = "0" -> 48 [] c = "5" -> 53 [] c = "=" -> 61
    [] c = "a" -> 97 [] c = "b" -> 98 [] c = "c" -> 99 [] c = "d" -> 100
    [] c = "e" -> 101 [] c = "f" -> 102 [] c = "h" -> 104 [] c = "k" -> 107
    [] c = "l" -> 108 [] c = "m" -> 109 [] c = "r" -> 114 [] c = "s" -> 115
    [] c = "t" -> 116 [] c = "u" -> 117 [] c = "v" -> 118 [] c = "x" -> 120

\* a Go string literal, given character by character
Str(cs) == [i \in 1..Len(cs) |-> Ord(cs[i])]

Empty == <<>>
Space == Str(<<" ">>)
Comma == Str(<<",">>)
Equals == Str(<<"=">>)
Dash == Str(<<"-">>)

\* strconv decimal digits of a natural number
RECURSIVE Digits(_)
Digits(n) == IF n < 10 THEN <<48 + n>> ELSE Digits(n \div 10) \o <<48 + (n % 10)>>

\* fmt.Sprintf("%v", v) for an integer v
FormatInt(n) == IF n < 0 THEN Dash \o Digits(0 - n) ELSE Digits(n)

\* fmt.Sprintf("%v", v) for a bool v
FormatBool(b) == IF b THEN Str(<<"t","r","u","e">>) ELSE Str(<<"f","a","l","s","e">>)

\* fmt.Sprintf("%v", v) for a float v, v given in halves (3 is 1.5): the
\* shortest decimal that round-trips, no exponent in this range
FormatFloat(h) ==
  LET a == IF h < 0 THEN 0 - h ELSE h
      sign == IF h < 0 THEN Dash ELSE Empty
  IN sign \o Digits(a \div 2) \o (IF a % 2 = 1 THEN Str(<<".","5">>) ELSE Empty)

\* time.Duration.String() of d whole seconds, d >= 0.  Zero renders "0" under
\* Go <= 1.6 (legacy) and "0s" under Go >= 1.7.
DurationString(d, legacy) ==
  LET h == d \div 3600
      m == (d % 3600) \div 60
      s == d % 60
  IN IF d = 0 THEN (IF legacy THEN Str(<<"0">>) ELSE Str(<<"0","s">>))
     ELSE (IF h > 0 THEN Digits(h) \o Str(<<"h">>) ELSE Empty)
          \o (IF h > 0 \/ m > 0 THEN Digits(m) \o Str(<<"m">>) ELSE Empty)
          \o Digits(s) \o Str(<<"s">>)

\* strings.Join(elems, sep)
RECURSIVE Join(_, _)
Join(elems, sep) ==
  IF Len(elems) = 0 THEN Empty
  ELSE IF Len(elems) = 1 THEN elems[1]
  ELSE elems[1] \o sep \o Join(Tail(elems), sep)

\* a < b for Go strings: byte-wise, a proper prefix first
RECURSIVE StrLess(_, _)
StrLess(a, b) ==
  IF Len(b) = 0 THEN FALSE
  ELSE IF Len(a) = 0 THEN TRUE
  ELSE IF a[1] # b[1] THEN a[1] < b[1]
  ELSE StrLess(Tail(a), Tail(b))

RECURSIVE Insert(_, _)
Insert(sorted, t) ==
  IF Len(sorted) = 0 THEN <<t>>
  ELSE IF StrLess(t, sorted[1]) THEN <<t>> \o sorted
  ELSE <<sorted[1]>> \o Insert(Tail(sorted), t)

RECURSIVE InsertAll(_, _)
InsertAll(sorted, rest) ==
  IF Len(rest) = 0 THEN sorted ELSE InsertAll(Insert(sorted, rest[1]), Tail(rest))

\* faulty variant: the sort left out
SortStrings_Unsorted(ss) == ss

\* sort.Strings(flags): ascending byte-wise order
SortStrings(ss) == InsertAll(<<>>, ss)

\* ------------------------------------------------------------------ values

\* The Go types tried for a field.  A value is a record: type is the type of
\* the innermost value, ptr tells how the field holds it ("none": directly,
\* "nil": a nil pointer to it, "ptr": a non-nil pointer, "ptrptr": a non-nil
\* pointer to a non-nil pointer), isNil marks a nil map or slice, and n, s,
\* pairs, elems, fields carry the payload of the type.
IntTypes == {"int", "int32", "int64"}
FloatTypes == {"float32", "float64"}
OtherWidthTypes == {"int8", "int16", "uint", "uint8", "uint16", "uint32", "uint64"}
NumericTypes == IntTypes \cup FloatTypes \cup OtherWidthTypes
MapTypes == {"map[string]string", "map[string]int"}
SliceTypes == {"[]string", "[]int"}
OpaqueTypes == {"chan", "func"}
PtrShapes == {"none", "nil", "ptr", "ptrptr"}

Val(type, n, s, isNil, pairs, elems, fields) ==
  [type |-> type, ptr |-> "none", isNil |-> isNil, n |-> n, s |-> s,
   pairs |-> pairs, elems |-> elems, fields |-> fields]

VString(s) == Val("string", 0, s, FALSE, {}, <<>>, <<>>)
VBool(b) == Val("bool", IF b THEN 1 ELSE 0, Empty, FALSE, {}, <<>>, <<>>)
VNum(type, n) == Val(type, n, Empty, FALSE, {}, <<>>, <<>>)
VDuration(secs) == Val("Duration", secs, Empty, FALSE, {}, <<>>, <<>>)
VMap(type, isNil, pairs) == Val(type, 0, Empty, isNil, pairs, <<>>, <<>>)
VSlice(type, isNil, elems) == Val(type, 0, Empty, isNil, {}, elems, <<>>)
VOpaque(type) == Val(type, 0, Empty, FALSE, {}, <<>>, <<>>)
VStruct(fields) == Val("struct", 0, Empty, FALSE, {}, <<>>, fields)
Held(v, shape) == [v EXCEPT !.ptr = shape]

\* val.Kind() of the value the walker is handed
Kind(v) ==
  IF v.ptr # "none" THEN "Ptr"
  ELSE IF v.type \in MapTypes THEN "Map"
  ELSE IF v.type \in SliceTypes THEN "Slice"
  ELSE "Other"

\* val.Elem() of a non-nil pointer
Elem(v) == [v EXCEPT !.ptr = IF v.ptr = "ptrptr" THEN "ptr" ELSE "none"]

\* the orders in which range may hand out the pairs of a map
IterationOrders(pairs) ==
  {o \in [1..Cardinality(pairs) -> pairs] : \A i, j \in DOMAIN o : i # j => o[i] # o[j]}

\* ------------------------------------------------------------------ walker

RetNil == "nil"
RetSkip == "skip"
RetError == "error"

Outcome(ret, emit) == [ret |-> ret, emit |-> emit]

\* fmt.Sprintf("--%s=%s", flagName, value)
FlagToken(flagName, value) == Dash \o Dash \o flagName \o Equals \o value

\* faulty variant: an excluded field is descended into
ExcludedReturn_Descend == RetNil

\* what the walker returns for a field tagged flag:"-"
ExcludedReturn == RetSkip

\* faulty variant: the key is formatted twice
MapArgs_KeyTwice(order) == [i \in DOMAIN order |-> order[i][1] \o Equals \o order[i][1]]

\* fmt.Sprintf("%s=%s", k, v) for the pairs of the map, in range order
MapArgs(order) == [i \in DOMAIN order |-> order[i][1] \o Equals \o order[i][2]]

\* val.Kind() == reflect.Map
MapCase(flagName, v, order) ==
  IF v.isNil THEN Outcome(RetNil, <<>>)
  ELSE IF v.type = "map[string]string"
    THEN LET args == MapArgs(order)
         IN IF Len(args) # 0
              THEN Outcome(RetSkip, <<FlagToken(flagName, Join(args, Comma))>>)
              ELSE Outcome(RetSkip, <<>>)
  ELSE Outcome(RetError, <<>>)

\* faulty variant: an empty slice is treated like a nil one
SliceCase_EmptyAsNil(flagName, v) ==
  IF v.isNil \/ (v.type = "[]string" /\ Len(v.elems) = 0) THEN Outcome(RetNil, <<>>)
  ELSE IF v.type = "[]string"
    THEN Outcome(RetSkip, <<FlagToken(flagName, Join(v.elems, Comma))>>)
  ELSE Outcome(RetError, <<>>)

\* val.Kind() == reflect.Slice
SliceCase(flagName, v) ==
  IF v.isNil THEN Outcome(RetNil, <<>>)
  ELSE IF v.type = "[]string"
    THEN IF Len(v.elems) # 0
           THEN Outcome(RetSkip, <<FlagToken(flagName, Join(v.elems, Comma))>>)
           ELSE Outcome(RetSkip, <<>>)
  ELSE Outcome(RetError, <<>>)

\* faulty variant: only flag-empty is compared
StringCase_NoEmptyCheck(flagName, flagEmpty, vString) ==
  IF vString # flagEmpty THEN FlagToken(flagName, vString) ELSE Empty

\* case string: the flag, or "" for none
StringCase(flagName, flagEmpty, vString) ==
  IF vString # Empty /\ vString # flagEmpty THEN FlagToken(flagName, vString) ELSE Empty

\* faulty variant: int32 left out of the case
ScalarTypes_NoInt32 == {"bool", "int", "int64", "float32", "float64"}

\* the types of case bool, int, int32, int64, float32, float64
ScalarTypes == {"bool", "int", "int32", "int64", "float32", "float64"}

\* fmt.Sprintf("%v", v) of a value of one of ScalarTypes
Sprint(v) ==
  IF v.type = "bool" THEN FormatBool(v.n = 1)
  ELSE IF v.type \in FloatTypes THEN FormatFloat(v.n)
  ELSE FormatInt(v.n)

\* faulty variant: a zero value is taken for unset
ScalarCase_ZeroUnset(flagName, flagEmpty, vString) ==
  IF vString # flagEmpty /\ vString # Str(<<"0">>) THEN FlagToken(flagName, vString) ELSE Empty

\* case bool, int, ...: the flag, or "" for none
ScalarCase(flagName, flagEmpty, vString) ==
  IF vString # flagEmpty THEN FlagToken(flagName, vString) ELSE Empty

\* faulty variant: the rendering is left as it is
ForceZeroSeconds_Kept(vString) == vString

\* the rewrite of a duration rendered "0" to "0s"
ForceZeroSeconds(vString) ==
  IF vString = Str(<<"0">>) THEN Str(<<"0","s">>) ELSE vString

\* case metav1.Duration: the flag, or "" for none
DurationCase(flagName, flagEmpty, natural) ==
  LET vString == ForceZeroSeconds(natural)
  IN IF vString # flagEmpty THEN FlagToken(flagName, vString) ELSE Empty

\* switch v := val.Interface().(type), the append that follows it and the
\* final return
TypeSwitch(flagName, flagEmpty, v, legacy) ==
  IF v.ptr = "none" /\ v.type \in {"string", "Duration"} \cup ScalarTypes
    THEN LET flag == IF v.type = "string" THEN StringCase(flagName, flagEmpty, v.s)
                     ELSE IF v.type = "Duration"
                       THEN DurationCase(flagName, flagEmpty, DurationString(v.n, legacy))
                     ELSE ScalarCase(flagName, flagEmpty, Sprint(v))
         IN Outcome(RetSkip, IF flag # Empty THEN <<flag>> ELSE <<>>)
    ELSE Outcome(RetError, <<>>)

\* the walker closure: what it returns and what it appends to flags.
\* hasField is field != nil, tag and flagEmpty are the field's "flag" and
\* "flag-empty" tags, order is the range order of the map (if val is one) and
\* legacy tells whether the toolchain renders a zero duration as "0".
Walker(hasField, tag, flagEmpty, val, order, legacy) ==
  IF ~hasField THEN Outcome(RetNil, <<>>)
  ELSE IF tag = Empty THEN Outcome(RetNil, <<>>)
  ELSE IF tag = Dash THEN Outcome(ExcludedReturn, <<>>)
  ELSE IF Kind(val) = "Ptr" /\ val.ptr = "nil" THEN Outcome(RetNil, <<>>)
  ELSE LET v == IF Kind(val) = "Ptr" THEN Elem(val) ELSE val
       IN IF Kind(v) = "Map" THEN MapCase(tag, v, order)
          ELSE IF Kind(v) = "Slice" THEN SliceCase(tag, v)
          ELSE TypeSwitch(tag, flagEmpty, v, legacy)

\* ------------------------------------------------------------------ inputs

NameA == Str(<<"a">>)
NameB == Str(<<"b">>)
\* the "flag" tags tried: none, the exclusion sentinel, two flag names
Tags == {Empty, Dash, NameA, NameB}
\* the "flag-empty" tags tried
FlagEmpties ==
  {Empty, Str(<<"0">>), Str(<<"0","s">>), Str(<<"x">>), Str(<<"f","a","l","s","e">>)}

Field(tag, flagEmpty, val) ==
  [hasField |-> TRUE, tag |-> tag, flagEmpty |-> flagEmpty, val |-> val]

\* the visit of a value that is no struct field (field == nil)
NonField(val) == [hasField |-> FALSE, tag |-> Empty, flagEmpty |-> Empty, val |-> val]

IntValues == {0 - MaxInt, 0, 3, MaxInt}
FloatValues == {0 - 1, 0, 3, 4}
DurationValues == {0, 1, 90, 330, 3600}
StringValues == {Empty, Str(<<"x">>), Str(<<"0">>), Str(<<"0","s">>)}
MapKeys == {Str(<<"k">>), Str(<<"l">>)}
MapValues == {Empty, Str(<<"v">>), Str(<<"c",",","d">>), Str(<<"e","=","f">>)}
\* the contents of the map[string]string values tried: each key at most once
MapContents ==
  UNION {{{<<k, f[k]>> : k \in ks} : f \in [ks -> MapValues]} : ks \in SUBSET MapKeys}
SliceContents == UNION {[1..n -> {NameA, NameB}] : n \in 0..MaxElems}

\* the values tried for one walker invocation, as held directly
DirectValues ==
  {VString(s) : s \in StringValues}
  \cup {VBool(b) : b \in BOOLEAN}
  \cup {VNum(ty, n) : ty \in IntTypes, n \in IntValues}
  \cup {VNum(ty, n) : ty \in FloatTypes, n \in FloatValues}
  \cup {VNum(ty, n) : ty \in OtherWidthTypes, n \in {0, 3}}
  \cup {VDuration(d) : d \in DurationValues}
  \cup {VMap("map[string]string", FALSE, m) : m \in MapContents}
  \cup {VMap(ty, TRUE, {}) : ty \in MapTypes}
  \cup {VMap("map[string]int", FALSE, {})}
  \cup {VSlice("[]string", FALSE, l) : l \in SliceContents}
  \cup {VSlice(ty, TRUE, <<>>) : ty \in SliceTypes}
  \cup {VSlice("[]int", FALSE, <<>>)}
  \cup {VOpaque(ty) : ty \in OpaqueTypes}
  \cup {VStruct(<<>>)}

AllValues == {Held(v, shape) : v \in DirectValues, shape \in PtrShapes}

\* the fields tried when the walker is checked on its own
AllFields ==
  {Field(tag, fe, v) : tag \in Tags, fe \in FlagEmpties, v \in AllValues}
  \cup {NonField(VStruct(<<>>))}

\* the fields of the nested structs of a traversal
NestedFields ==
  {Field(tag, Empty, v) : tag \in {NameA, Dash},
                          v \in {VString(Str(<<"x">>)), VOpaque("chan")}}
NestedStructs ==
  {VStruct(fs) : fs \in {<<>>} \cup {<<f>> : f \in NestedFields}}
  \cup {VStruct(<<Field(NameB, Empty, VString(Str(<<"x">>))),
                  Field(NameA, Empty, VNum("int", 0))>>),
        Held(VStruct(<<Field(NameA, Empty, VString(Str(<<"x">>)))>>), "ptr")}

\* the values of the fields of the root struct of a traversal
RootValues ==
  {VString(Empty), VString(Str(<<"x">>)), VNum("int", 0), VNum("int", 3),
   VDuration(0), VSlice("[]string", FALSE, <<NameB, NameA>>),
   VMap("map[string]string", FALSE, {<<Str(<<"k">>), Str(<<"v">>)>>}),
   VOpaque("chan"), Held(VNum("int", 0), "nil"), Held(VString(Str(<<"x">>)), "ptr")}
  \cup NestedStructs

\* the fields of the root struct of a traversal
RootFields ==
  {Field(tag, Empty, v) : tag \in Tags, v \in RootValues}
  \cup {Field(tag, Str(<<"0">>), VNum("int", 0)) : tag \in {NameA, NameB}}

\* ------------------------------------------------------------------- state

VARIABLES
  pc,        \* where BuildFlags is: "start", "fields", "abort", "done"
             \* (and "walker", "walked" when the walker is run on its own)
  legacy,    \* the toolchain renders a zero duration as "0" (Go <= 1.6)
  flags,     \* var flags []string
  cur,       \* the field of the last walker invocation
  ancestors, \* the "flag" tags of the fields that enclose cur
  ret,       \* what the last walker invocation returned
  pending,   \* fields of the struct being descended into, not yet visited
  visits,    \* number of fields of the root struct visited so far
  result,    \* the string BuildFlags returns
  err,       \* whether BuildFlags returns an error
  before,    \* history: flags as the last walker invocation found it
  emitted,   \* history: every flag appended, in the order of the visits
  emitVisits,\* history: number of walker invocations that appended a flag
  sawError   \* history: some walker invocation returned an error

vars == <<pc, legacy, flags, cur, ancestors, ret, pending, visits, result, err,
          before, emitted, emitVisits, sawError>>

\* one walker invocation on field f, the map (if f holds one) ranged in order
Invoke(f, order) ==
  LET o == Walker(f.hasField, f.tag, f.flagEmpty, f.val, order, legacy)
  IN /\ cur' = f
     /\ ret' = o.ret
     /\ before' = flags
     /\ flags' = flags \o o.emit
     /\ emitted' = emitted \o o.emit
     /\ emitVisits' = emitVisits + (IF o.emit # <<>> THEN 1 ELSE 0)
     /\ sawError' = (sawError \/ o.ret = RetError)

\* the traversal engine: the fields it goes on to visit beneath f once the
\* callback has returned r.  It descends unless told to skip (or stopped by an
\* error), through non-nil pointers, into the fields of a struct.
EngineChildren(f, r) ==
  IF r = RetNil /\ f.val.type = "struct" /\ f.val.ptr # "nil" THEN f.val.fields ELSE <<>>

\* the engine after a callback that returned r: an error ends the traversal
EngineNext(r) == IF r = RetError THEN "abort" ELSE "fields"

\* faulty variant: the flags gathered so far are returned with the error
ErrorResult_Partial(fl) == Join(fl, Space)

\* return "", err
ErrorResult(fl) == Empty

\* a sorted sequence with its repeated elements dropped
RECURSIVE Uniq(_)
Uniq(ss) ==
  IF Len(ss) < 2 THEN ss
  ELSE IF ss[1] = ss[2] THEN Uniq(Tail(ss))
  ELSE <<ss[1]>> \o Uniq(Tail(ss))

\* faulty variant: equal flags are merged
OkResult_Dedup(fl) == Join(Uniq(SortStrings(fl)), Space)

\* sort.Strings(flags); return strings.Join(flags, " "), nil
OkResult(fl) == Join(SortStrings(fl), Space)

\* a traversal runs under a toolchain that renders a zero duration as "0s"
Init ==
  /\ pc = "start"
  /\ legacy = FALSE
  /\ flags = <<>>
  /\ cur = NonField(VStruct(<<>>))
  /\ ancestors = <<>>
  /\ ret = RetNil
  /\ pending = <<>>
  /\ visits = 0
  /\ result = Empty
  /\ err = FALSE
  /\ before = <<>>
  /\ emitted = <<>>
  /\ emitVisits = 0
  /\ sawError = FALSE

\* the engine hands the walker the root value, which is no struct field
VisitRoot ==
  /\ pc = "start"
  /\ Invoke(NonField(VStruct(<<>>)), <<>>)
  /\ pc' = EngineNext(ret')
  /\ ancestors' = <<>>
  /\ UNCHANGED <<legacy, pending, visits, result, err>>

\* the engine hands the walker the next field of the root struct
VisitField ==
  /\ pc = "fields"
  /\ pending = <<>>
  /\ visits < MaxVisits
  /\ \E f \in RootFields : \E order \in IterationOrders(f.val.pairs) :
       /\ Invoke(f, order)
       /\ pending' = EngineChildren(f, ret')
  /\ pc' = EngineNext(ret')
  /\ ancestors' = <<>>
  /\ visits' = visits + 1
  /\ UNCHANGED <<legacy, result, err>>

\* the engine hands the walker the next field of the struct it descended into
VisitNested ==
  /\ pc = "fields"
  /\ pending # <<>>
  /\ \E order \in IterationOrders(Head(pending).val.pairs) : Invoke(Head(pending), order)
  /\ pending' = Tail(pending)
  /\ pc' = EngineNext(ret')
  /\ ancestors' = IF ancestors = <<>> THEN <<cur.tag>> ELSE ancestors
  /\ UNCHANGED <<legacy, visits, result, err>>

\* ReflectRecursive returned an error: BuildFlags returns it
ReturnError ==
  /\ pc = "abort"
  /\ result' = ErrorResult(flags)
  /\ err' = TRUE
  /\ pc' = "done"
  /\ UNCHANGED <<legacy, flags, cur, ancestors, ret, pending, visits,
                 before, emitted, emitVisits, sawError>>

\* ReflectRecursive returned nil: BuildFlags sorts, joins and returns
ReturnOk ==
  /\ pc = "fields"
  /\ pending = <<>>
  /\ flags' = SortStrings(flags)
  /\ result' = OkResult(flags)
  /\ err' = FALSE
  /\ pc' = "done"
  /\ UNCHANGED <<legacy, cur, ancestors, ret, pending, visits,
                 before, emitted, emitVisits, sawError>>

Next == VisitRoot \/ VisitField \/ VisitNested \/ ReturnError \/ ReturnOk

Spec == Init /\ [][Next]_vars

\* ------------------------------------------------ the walker on its own

\* what flags may hold when the walker is invoked
PriorFlags == {<<>>, <<FlagToken(NameB, Str(<<"x">>))>>}

InitWalker ==
  /\ pc = "walker"
  /\ legacy \in BOOLEAN
  /\ flags \in PriorFlags
  /\ cur \in AllFields
  /\ ancestors = <<>>
  /\ ret = RetNil
  /\ pending = <<>>
  /\ visits = 0
  /\ result = Empty
  /\ err = FALSE
  /\ before = flags
  /\ emitted = flags
  /\ emitVisits = Len(flags)
  /\ sawError = FALSE

\* the engine hands the walker the field cur
WalkOnce ==
  /\ pc = "walker"
  /\ \E order \in IterationOrders(cur.val.pairs) : Invoke(cur, order)
  /\ pending' = EngineChildren(cur, ret')
  /\ pc' = "walked"
  /\ visits' = visits + 1
  /\ UNCHANGED <<legacy, ancestors, result, err>>

NextWalker == WalkOnce

SpecWalker == InitWalker /\ [][NextWalker]_vars

\* -------------------------------------------------------------- properties

\* strings.Split(s, c) for a one-byte separator c
RECURSIVE SplitOn(_, _)
SplitOn(s, c) ==
  IF \E i \in DOMAIN s : s[i] = c
    THEN LET i == CHOOSE k \in DOMAIN s : s[k] = c /\ \A j \in 1..(k - 1) : s[j] # c
         IN <<SubSeq(s, 1, i - 1)>> \o SplitOn(SubSeq(s, i + 1, Len(s)), c)
    ELSE <<s>>

\* the tokens of an output string: what lies between its spaces
Tokens(out) == IF out = <<>> THEN <<>> ELSE SplitOn(out, 32)

\* number of times t occurs in the sequence s
Count(s, t) == Cardinality({i \in DOMAIN s : s[i] = t})

\* s and q hold the same elements, each as often
SameBag(s, q) ==
  /\ Len(s) = Len(q)
  /\ \A i \in DOMAIN s : Count(s, s[i]) = Count(q, s[i])

\* a <= b in byte-wise lexicographic order
LexLeq(a, b) ==
  \/ Len(a) <= Len(b) /\ \A i \in DOMAIN a : a[i] = b[i]
  \/ \E i \in DOMAIN a \cap DOMAIN b : a[i] < b[i] /\ \A j \in 1..(i - 1) : a[j] = b[j]

Ascending(q) == \A i \in 1..(Len(q) - 1) : LexLeq(q[i], q[i + 1])

\* "--<name>=<value>", byte by byte
Token(name, value) == <<45, 45>> \o name \o <<61>> \o value

ReturnedOk == pc = "done" /\ ~err
RealName(f) == f.hasField /\ f.tag # <<>> /\ f.tag # <<45>>
\* the field holds its value directly or behind one non-nil pointer
Resolved(f) == f.val.ptr \in {"none", "ptr"}
\* the walker has just been run on a field with a real flag name and a
\* resolved value of one of the types tys
Walked(tys) == pc = "walked" /\ RealName(cur) /\ Resolved(cur) /\ cur.val.type \in tys

\* C1: on an error-free return the output is the emitted tokens in ascending
\* byte-wise order of the whole token, separated by exactly one space, with
\* no space before the first or after the last; it is therefore the same for
\* every order of the visits that emits the same tokens as often.
C1_SortedJoined ==
  ReturnedOk =>
    LET q == Tokens(result)
    IN /\ SameBag(q, emitted)
       /\ Ascending(q)
       /\ (emitted = <<>> => result = <<>>)

\* C1 witness: three tokens emitted out of order were returned
C1_Witness ==
  /\ ReturnedOk
  /\ Len(emitted) >= 3
  /\ ~Ascending(emitted)

\* C2: once a walker invocation has reported an error the traversal stops,
\* and BuildFlags returns the error with the empty string, whatever was
\* emitted before.
C2_ErrorEmptiesResult ==
  /\ sawError => pc \in {"abort", "done"}
  /\ (pc = "done" /\ sawError) => (err /\ result = <<>>)

\* C2 witness: an error was returned after tokens had been emitted
C2_Witness == pc = "done" /\ sawError /\ err /\ Len(emitted) >= 2

\* C3: a field tagged flag:"-" appends nothing, the walker returns the skip
\* signal for it, the engine schedules none of its fields, and no visited
\* field lies beneath a field tagged flag:"-".
C3_ExcludedSubtree ==
  /\ (pc \in {"fields", "abort"} /\ cur.hasField /\ cur.tag = <<45>>) =>
       (ret = "skip" /\ flags = before /\ pending = <<>> /\ ~sawError)
  /\ \A i \in DOMAIN ancestors : ancestors[i] # <<45>>

\* C3 witness: an excluded struct field was visited whose own field has a
\* flag name and a string value that would be emitted
C3_Witness ==
  /\ pc = "fields"
  /\ cur.hasField /\ cur.tag = <<45>>
  /\ cur.val.type = "struct" /\ cur.val.ptr = "none"
  /\ cur.val.fields # <<>>
  /\ RealName(cur.val.fields[1])
  /\ cur.val.fields[1].val.type = "string"
  /\ cur.val.fields[1].val.s # <<>>

\* C10: every walker invocation appends at most one token, and on an
\* error-free return the output holds as many tokens as invocations that
\* appended one: equal tokens are kept, each on its own.
C10_NoDedup ==
  /\ Len(flags) \in {Len(before), Len(before) + 1}
  /\ ReturnedOk =>
       /\ Len(Tokens(result)) = emitVisits
       /\ \A i \in DOMAIN emitted : Count(Tokens(result), emitted[i]) = Count(emitted, emitted[i])

\* C10 witness: two fields with the same flag name and value were both
\* returned
C10_Witness ==
  /\ ReturnedOk
  /\ \E i, j \in DOMAIN emitted : i # j /\ emitted[i] = emitted[j]
  /\ \E i \in DOMAIN Tokens(result) : Count(Tokens(result), Tokens(result)[i]) >= 2

\* the flag the claims expect of the last walker invocation, value being the
\* text of the field's value: none when suppress holds
Appends(suppress, value) ==
  flags = before \o (IF suppress THEN <<>> ELSE <<Token(cur.tag, value)>>)

\* C4: a string field with a real flag name appends --<name>=<string> exactly
\* when the string is non-empty and differs from flag-empty; an empty string
\* appends nothing whatever flag-empty is.
C4_StringToken ==
  Walked({"string"}) =>
    /\ Appends(cur.val.s = <<>> \/ cur.val.s = cur.flagEmpty, cur.val.s)
    /\ (cur.val.s = <<>> => flags = before)

\* C4 witness: a non-empty string behind a pointer, under a flag-empty that
\* differs from it, was appended
C4_Witness ==
  /\ Walked({"string"})
  /\ cur.val.ptr = "ptr" /\ cur.val.s = <<120>> /\ cur.flagEmpty = <<48>>
  /\ flags = before \o <<Token(cur.tag, <<120>>)>>

\* C5: a bool, int, int32, int64, float32 or float64 field with a real flag
\* name appends nothing when its stringified value equals flag-empty, and
\* otherwise exactly the token --<name>=<stringified value>; under the empty
\* flag-empty the values 0 and false are appended.
C5_ScalarToken ==
  Walked({"bool", "int", "int32", "int64", "float32", "float64"}) =>
    /\ Appends(Sprint(cur.val) = cur.flagEmpty, Sprint(cur.val))
    /\ (cur.flagEmpty = <<>> /\ cur.val.n = 0) =>
         \/ cur.val.type = "bool" /\ flags = before \o <<Token(cur.tag, <<102, 97, 108, 115, 101>>)>>
         \/ cur.val.type # "bool" /\ flags = before \o <<Token(cur.tag, <<48>>)>>

\* C5 witness: an integer 0 whose flag-empty is "0" was suppressed
C5_Witness ==
  /\ Walked({"int", "int32", "int64"})
  /\ cur.val.n = 0 /\ cur.flagEmpty = <<48>>
  /\ flags = before

\* the field is a duration that the toolchain renders as the bare "0"
ZeroRenderedBare == DurationString(cur.val.n, legacy) = <<48>>

\* C6: a duration field with a real flag name that renders as "0" is
\* compared and appended as "0s": flag-empty "0s" suppresses it, any other
\* flag-empty (among them "0") leaves the token --<name>=0s.
C6_ZeroDuration ==
  (Walked({"Duration"}) /\ ZeroRenderedBare) =>
    Appends(cur.flagEmpty = <<48, 115>>, <<48, 115>>)

\* C6 witness: a duration rendered "0" under flag-empty "0" was appended as 0s
C6_Witness ==
  /\ Walked({"Duration"}) /\ ZeroRenderedBare
  /\ cur.flagEmpty = <<48>>
  /\ flags = before \o <<Token(cur.tag, <<48, 115>>)>>

\* no key and no value of the map holds ',' or '='
NoSeparators(pairs) ==
  \A p \in pairs : \A i \in 1..2 : \A j \in DOMAIN p[i] : p[i][j] \notin {44, 61}

\* the text after "--<name>=" of the token t, when t starts so
ValueOf(t, name) == SubSeq(t, Len(name) + 4, Len(t))

\* C7: a map[string]string field with a real flag name appends, when the map
\* is non-empty and free of ',' and '=', exactly one token --<name>=<pairs>
\* whose value splits on ',' into as many parts as the map has pairs, and
\* these split on '=' into exactly the map's pairs; a nil or empty map
\* appends nothing and is no error.
C7_MapRoundTrip ==
  Walked({"map[string]string"}) =>
    /\ (cur.val.isNil \/ cur.val.pairs = {}) => (flags = before /\ ret # "error")
    /\ (~cur.val.isNil /\ cur.val.pairs # {} /\ NoSeparators(cur.val.pairs)) =>
         /\ Len(flags) = Len(before) + 1
         /\ SubSeq(flags, 1, Len(before)) = before
         /\ LET t == flags[Len(flags)]
                parts == SplitOn(ValueOf(t, cur.tag), 44)
            IN /\ SubSeq(t, 1, Len(cur.tag) + 3) = Token(cur.tag, <<>>)
               /\ Len(parts) = Cardinality(cur.val.pairs)
               /\ {SplitOn(parts[i], 61) : i \in DOMAIN parts} = cur.val.pairs

\* C7 witness: a map of two pairs was appended, the pairs in descending order
\* of their keys
C7_Witness ==
  /\ Walked({"map[string]string"})
  /\ Cardinality(cur.val.pairs) = 2 /\ NoSeparators(cur.val.pairs)
  /\ Len(flags) = Len(before) + 1
  /\ LET parts == SplitOn(ValueOf(flags[Len(flags)], cur.tag), 44)
     IN Len(parts) = 2 /\ ~LexLeq(parts[1], parts[2])

\* C8 as claimed: an integer or float field of any width with a real flag
\* name is never an unsupported-kind error.
C8_AnyWidthNoError ==
  Walked(NumericTypes) => ret # "error"

\* C8 amended: int, int32, int64, float32 and float64 fields with a real flag
\* name are stringified and appended unless equal to flag-empty, and are no
\* error; integers of the other widths (int8, int16, uint, uint8, uint16,
\* uint32, uint64) are the unsupported-kind error and append nothing.
C8_HandledWidths ==
  /\ Walked({"int", "int32", "int64", "float32", "float64"}) =>
       (ret = "skip" /\ Appends(Sprint(cur.val) = cur.flagEmpty, Sprint(cur.val)))
  /\ Walked({"int8", "int16", "uint", "uint8", "uint16", "uint32", "uint64"}) =>
       (ret = "error" /\ flags = before)

\* C8 witness: an int8 field was the unsupported-kind error
C8_Witness == Walked({"int8"}) /\ ret = "error"

\* C9 as claimed: for a map[string]string or []string field with a real flag
\* name the walker returns the skip signal, nil or not, empty or not.
C9_AlwaysSkip ==
  Walked({"map[string]string", "[]string"}) => ret = "skip"

\* C9 amended: for a map[string]string or []string field with a real flag
\* name the walker returns the skip signal when the value is not nil, empty
\* or not; for a nil value it returns nil (descent allowed) and appends
\* nothing; in both cases the engine visits nothing beneath the field.
C9_SkipUnlessNil ==
  Walked({"map[string]string", "[]string"}) =>
    /\ ~cur.val.isNil => ret = "skip"
    /\ cur.val.isNil => (ret = "nil" /\ flags = before)
    /\ pending = <<>>

\* C9 witness: a nil map was visited and the walker allowed descent
C9_Witness ==
  /\ Walked({"map[string]string"})
  /\ cur.val.isNil /\ ret = "nil"

====
